---- MODULE Spec2Model ----
(***************************************************************************)
(* Verification model of src/cosign/bundle.rs (sigstore-rs): decoding a    *)
(* Rekor bundle, canonicalizing its payload and checking the signed entry  *)
(* timestamp against a public key.                                         *)
(*                                                                         *)
(* Text (a Rust String, a byte buffer) is a sequence of characters, each   *)
(* character a one-element string; "U+00E9" is the precomposed e-acute and *)
(* "U+0301" the combining acute accent.  A raw JSON document is the value  *)
(* its text denotes (members in textual order, duplicates kept) together   *)
(* with the amount of insignificant whitespace in the text.                *)
(***************************************************************************)
EXTENDS Integers, Sequences, FiniteSets, TLC

VARIABLES pc, call, ret, events, held, copy, passed, memo

vars == <<pc, call, ret, events, held, copy, passed, memo>>

(***************************************************************************)
(* Bounds of the model.                                                    *)
(***************************************************************************)
MaxWs == 1
MaxTime == 1
MaxLogIndex == 10

(***************************************************************************)
(* Result<T, SigstoreError>.                                               *)
(***************************************************************************)
Ok(v) == [ok |-> TRUE, v |-> v]
Err(e) == [ok |-> FALSE, e |-> e]
Unit == [unit |-> TRUE]
None == <<>>
Some(v) == <<v>>

\* SigstoreError::UnexpectedError(format!("Cannot parse bundle |{}|: {:?}", raw, e))
ParseError == [variant |-> "UnexpectedError", msg |-> "Cannot parse bundle"]

\* SigstoreError::UnexpectedError(format!("Cannot create canonical JSON representation of bundle: {:?}", e))
CanonicalizationError ==
    [variant |-> "UnexpectedError",
     msg |-> "Cannot create canonical JSON representation of bundle"]

(***************************************************************************)
(* The values a Payload, a Bundle and a SignedArtifactBundle are drawn     *)
(* from.                                                                   *)
(***************************************************************************)
Bodies == { <<"U+00E9">>, <<"e", "U+0301">>, <<"\"", "e">> }
Times == { -MaxTime, MaxTime }
LogIndexes == { 0, MaxLogIndex }
LogIDs == { <<"c">>, <<"c", "0">> }

Payload(body, integrated_time, log_index, log_id) ==
    [body |-> body, integrated_time |-> integrated_time,
     log_index |-> log_index, log_id |-> log_id]

Payloads ==
    { Payload(b, t, i, l) : b \in Bodies, t \in Times, i \in LogIndexes, l \in LogIDs }

Bundle(signed_entry_timestamp, payload) ==
    [signed_entry_timestamp |-> signed_entry_timestamp, payload |-> payload]

SignedArtifactBundle(base64_signature, cert, rekor_bundle) ==
    [base64_signature |-> base64_signature, cert |-> cert,
     rekor_bundle |-> rekor_bundle]

(***************************************************************************)
(* Canonical JSON of a Payload: serde's derived Serialize driven through   *)
(* olpc_cjson's CanonicalFormatter.                                        *)
(***************************************************************************)

\* The byte of a character of a wire name (ASCII).
Code(c) ==
    CASE c = "D" -> 68  [] c = "I" -> 73  [] c = "T" -> 84
      [] c = "a" -> 97  [] c = "b" -> 98  [] c = "d" -> 100
      [] c = "e" -> 101 [] c = "g" -> 103 [] c = "i" -> 105
      [] c = "l" -> 108 [] c = "m" -> 109 [] c = "n" -> 110
      [] c = "o" -> 111 [] c = "r" -> 114 [] c = "t" -> 116
      [] c = "x" -> 120 [] c = "y" -> 121

\* The wire names of Payload's fields: rename_all = "camelCase", and
\* rename = "logID" on log_id.
WireBody == <<"b", "o", "d", "y">>
WireIntegratedTime ==
    <<"i", "n", "t", "e", "g", "r", "a", "t", "e", "d", "T", "i", "m", "e">>
WireLogIndex == <<"l", "o", "g", "I", "n", "d", "e", "x">>
WireLogID == <<"l", "o", "g", "I", "D">>

\* Unicode NFC of a string fragment: a base letter followed by a combining
\* mark becomes the precomposed character (olpc_cjson write_string_fragment).
RECURSIVE Nfc(_)
Nfc(s) ==
    IF Len(s) = 0 THEN <<>>
    ELSE IF Len(s) >= 2 /\ s[1] = "e" /\ s[2] = "U+0301"
         THEN <<"U+00E9">> \o Nfc(SubSeq(s, 3, Len(s)))
         ELSE <<s[1]>> \o Nfc(Tail(s))

\* serde_json's format_escaped_str_contents with the canonical formatter:
\* the text between two escaped characters is written as one fragment, a
\* quote and a reverse solidus are written behind a reverse solidus.
RECURSIVE EscapedStrContents(_, _)
EscapedStrContents(s, fragment) ==
    IF Len(s) = 0 THEN Nfc(fragment)
    ELSE IF s[1] = "\"" \/ s[1] = "\\"
         THEN Nfc(fragment) \o <<"\\", s[1]>> \o EscapedStrContents(Tail(s), <<>>)
         ELSE EscapedStrContents(Tail(s), Append(fragment, s[1]))

WriteStr(s) == <<"\"">> \o EscapedStrContents(s, <<>>) \o <<"\"">>

Digit(d) ==
    CASE d = 0 -> "0" [] d = 1 -> "1" [] d = 2 -> "2" [] d = 3 -> "3"
      [] d = 4 -> "4" [] d = 5 -> "5" [] d = 6 -> "6" [] d = 7 -> "7"
      [] d = 8 -> "8" [] d = 9 -> "9"

RECURSIVE Digits(_)
Digits(n) == IF n < 10 THEN <<Digit(n)>> ELSE Digits(n \div 10) \o <<Digit(n % 10)>>

\* write_i64: a minus sign for a negative number, then the decimal digits.
WriteI64(n) == IF n < 0 THEN <<"-">> \o Digits(-n) ELSE Digits(n)

RECURSIVE LessBytes(_, _)
LessBytes(a, b) ==
    IF Len(b) = 0 THEN FALSE
    ELSE IF Len(a) = 0 THEN TRUE
    ELSE IF Code(a[1]) # Code(b[1]) THEN Code(a[1]) < Code(b[1])
    ELSE LessBytes(Tail(a), Tail(b))

RECURSIVE InsertEntry(_, _)
InsertEntry(sorted, e) ==
    IF Len(sorted) = 0 THEN <<e>>
    ELSE IF LessBytes(e[1], sorted[1][1]) THEN <<e>> \o sorted
    ELSE <<sorted[1]>> \o InsertEntry(Tail(sorted), e)

\* A mutant: the entries in the order the serializer gave them.
SortEntries_Unsorted(es) == es

\* The formatter keeps an object's entries in a map ordered by key bytes.
RECURSIVE SortEntries(_)
SortEntries(es) ==
    IF Len(es) = 0 THEN <<>>
    ELSE InsertEntry(SortEntries(SubSeq(es, 1, Len(es) - 1)), es[Len(es)])

RECURSIVE WriteEntries(_)
WriteEntries(es) ==
    IF Len(es) = 0 THEN <<>>
    ELSE WriteStr(es[1][1]) \o <<":">> \o es[1][2]
         \o (IF Len(es) > 1 THEN <<",">> ELSE <<>>) \o WriteEntries(Tail(es))

WriteObject(es) == <<"{">> \o WriteEntries(SortEntries(es)) \o <<"}">>

\* #[derive(Serialize)] of Payload: the fields in declaration order under
\* their wire names.
PayloadEntries(p) ==
    << <<WireBody, WriteStr(p.body)>>,
       <<WireIntegratedTime, WriteI64(p.integrated_time)>>,
       <<WireLogIndex, WriteI64(p.log_index)>>,
       <<WireLogID, WriteStr(p.log_id)>> >>

\* bundle.payload.serialize(&mut ser): the buffer, or the serializer's error.
\* (The formatter refuses floating point numbers only; Payload has none.)
SerializePayload(p) == Ok(WriteObject(PayloadEntries(p)))

(***************************************************************************)
(* crate::crypto, the signature-check primitive.  An ideal signature       *)
(* scheme: the signature of a message under a key is valid for that        *)
(* message and that key only.                                              *)
(***************************************************************************)
Keys == { "rekor", "other" }

\* The characters of a canonical message.
Alphabet ==
    <<"{", "}", "\"", ":", ",", "\\", "-",
      "0", "1", "2", "3", "4", "5", "6", "7", "8", "9",
      "D", "I", "T", "a", "b", "c", "d", "e", "g", "i", "l", "m", "n", "o",
      "r", "t", "x", "y", "U+00E9", "U+0301">>

B64Alphabet ==
    <<"A", "B", "C", "D", "E", "F", "G", "H", "I", "J", "K", "L", "M", "N", "O", "P",
      "Q", "R", "S", "T", "U", "V", "W", "X", "Y", "Z", "a", "b", "c", "d", "e", "f",
      "g", "h", "i", "j", "k", "l", "m", "n", "o", "p", "q", "r", "s", "t", "u", "v",
      "w", "x", "y", "z", "0", "1", "2", "3", "4", "5", "6", "7", "8", "9", "+", "/">>

IndexIn(table, c) == CHOOSE i \in 1..Len(table) : table[i] = c

AlphabetIndex == [c \in { Alphabet[i] : i \in 1..Len(Alphabet) } |-> IndexIn(Alphabet, c)]

B64Index == [c \in { B64Alphabet[i] : i \in 1..Len(B64Alphabet) } |-> IndexIn(B64Alphabet, c)]

KeyNo(key) == IF key = "rekor" THEN 1 ELSE 2

\* The signature the holder of `key` produces over `msg`, as a sequence of
\* 6-bit groups.
Sign(key, msg) == <<KeyNo(key)>> \o [i \in 1..Len(msg) |-> AlphabetIndex[msg[i]]]

Base64Encode(groups) == [i \in 1..Len(groups) |-> B64Alphabet[groups[i] + 1]]

\* Base64 decoding fails on a character outside the base64 alphabet.
Base64Decode(text) ==
    IF \A i \in 1..Len(text) : text[i] \in DOMAIN B64Index
    THEN Ok([i \in 1..Len(text) |-> B64Index[text[i]] - 1])
    ELSE Err([variant |-> "Base64Error", msg |-> "invalid base64"])

Base64Encoded(text) == [encoding |-> "Base64Encoded", data |-> text]

\* The primitive's verdict on the decoded signature.
CheckSignature(key, sig, msg) ==
    IF ~sig.ok THEN sig
    ELSE IF sig.v = Sign(key, msg) THEN Ok(Unit)
    ELSE Err([variant |-> "SignatureMismatch", msg |-> "signature mismatch"])

\* CosignVerificationKey::verify_signature(&self, signature, msg)
verify_signature(key, signature, msg) ==
    CheckSignature(key, Base64Decode(signature.data), msg)

\* The signed entry timestamps in play: every payload signed by every key,
\* a text that is not base64 and the empty text.
SignedEntryTimestamps ==
    { Base64Encode(Sign(k, SerializePayload(p).v)) : k \in Keys, p \in Payloads }
        \cup { <<"!">>, <<>> }

Bundles == { Bundle(s, p) : s \in SignedEntryTimestamps, p \in Payloads }

(***************************************************************************)
(* Bundle::verify_bundle.  `events` lists the calls made, in order.        *)
(***************************************************************************)
\* An entry of `events`: a call made, the primitive's with its arguments.
Called(fn) == [fn |-> fn]
CalledVerifySignature(key, signature, msg) ==
    [fn |-> "verify_signature", key |-> key, signature |-> signature, msg |-> msg]

\* A mutant: the signed message is an object enclosing the payload.
VerifySerialized_SignsEnclosingObject(bundle, rekor_pub_key, buf) ==
    IF ~buf.ok
    THEN [ret |-> Err(CanonicalizationError), events |-> <<Called("serialize")>>]
    ELSE [ret |-> verify_signature(rekor_pub_key,
                      Base64Encoded(bundle.signed_entry_timestamp),
                      <<"{">> \o buf.v \o <<"}">>),
          events |-> <<Called("serialize"),
                       CalledVerifySignature(rekor_pub_key,
                           Base64Encoded(bundle.signed_entry_timestamp),
                           <<"{">> \o buf.v \o <<"}">>)>>]

\* The primitive's error, as a mutant would wrap it.
WrapError(r) == IF r.ok THEN r ELSE Err(CanonicalizationError)

VerifySerialized_WrapsError(bundle, rekor_pub_key, buf) ==
    IF ~buf.ok
    THEN [ret |-> Err(CanonicalizationError), events |-> <<Called("serialize")>>]
    ELSE [ret |-> WrapError(verify_signature(rekor_pub_key,
                      Base64Encoded(bundle.signed_entry_timestamp), buf.v)),
          events |-> <<Called("serialize"),
                       CalledVerifySignature(rekor_pub_key,
                           Base64Encoded(bundle.signed_entry_timestamp), buf.v)>>]

\* The primitive's calls, as a mutant that tries a second time would make them.
RetryEvents(r, ev) == IF r.ok THEN <<Called("serialize"), ev>> ELSE <<Called("serialize"), ev, ev>>

VerifySerialized_Retries(bundle, rekor_pub_key, buf) ==
    IF ~buf.ok
    THEN [ret |-> Err(CanonicalizationError), events |-> <<Called("serialize")>>]
    ELSE [ret |-> verify_signature(rekor_pub_key,
                      Base64Encoded(bundle.signed_entry_timestamp), buf.v),
          events |-> RetryEvents(verify_signature(rekor_pub_key,
                                     Base64Encoded(bundle.signed_entry_timestamp), buf.v),
                                 CalledVerifySignature(rekor_pub_key,
                                     Base64Encoded(bundle.signed_entry_timestamp), buf.v))]

\* A mutant: a verdict once reached is given again, whatever the key.
VerifySerialized_Caches(bundle, rekor_pub_key, buf) ==
    IF ~buf.ok
    THEN [ret |-> Err(CanonicalizationError), events |-> <<Called("serialize")>>]
    ELSE [ret |-> IF passed # {} THEN Ok(Unit)
                  ELSE verify_signature(rekor_pub_key,
                           Base64Encoded(bundle.signed_entry_timestamp), buf.v),
          events |-> <<Called("serialize"),
                       CalledVerifySignature(rekor_pub_key,
                           Base64Encoded(bundle.signed_entry_timestamp), buf.v)>>]

\* Lines 74 to 85: the serializer's error becomes an UnexpectedError, the
\* primitive's error is returned as it is, success is Ok(()).
VerifySerialized(bundle, rekor_pub_key, buf) ==
    IF ~buf.ok
    THEN [ret |-> Err(CanonicalizationError), events |-> <<Called("serialize")>>]
    ELSE [ret |-> verify_signature(rekor_pub_key,
                      Base64Encoded(bundle.signed_entry_timestamp), buf.v),
          events |-> <<Called("serialize"),
                       CalledVerifySignature(rekor_pub_key,
                           Base64Encoded(bundle.signed_entry_timestamp), buf.v)>>]

verify_bundle(bundle, rekor_pub_key) ==
    VerifySerialized(bundle, rekor_pub_key, SerializePayload(bundle.payload))

(***************************************************************************)
(* serde_json::from_str into the derived Deserialize implementations.      *)
(***************************************************************************)
JStr(s) == [t |-> "str", s |-> s]
JInt(n) == [t |-> "int", n |-> n]
JObj(m) == [t |-> "obj", m |-> m]
JNull == [t |-> "null"]
JSyntaxError == [t |-> "syntax_error"]

Text(ws, json) == [ws |-> ws, json |-> json]

DeError(what) == [de |-> what]

DeserializeString(v) == IF v.t = "str" THEN Ok(v.s) ELSE Err(DeError("invalid type"))

DeserializeI64(v) == IF v.t = "int" THEN Ok(v.n) ELSE Err(DeError("invalid type"))

\* One member of the map against the field `name` of the struct being
\* built: a member seen twice is an error, a value of the wrong type too.
VisitField(acc, name, value) ==
    IF acc[name] # None THEN [acc EXCEPT !.err = Some(DeError("duplicate field"))]
    ELSE IF ~value.ok THEN [acc EXCEPT !.err = Some(value.e)]
    ELSE [acc EXCEPT ![name] = Some(value.v)]

\* A member of a Payload object; a member of another name is skipped.
VisitPayloadMember(acc, k, v) ==
    CASE k = "body" -> VisitField(acc, "body", DeserializeString(v))
      [] k = "integratedTime" -> VisitField(acc, "integrated_time", DeserializeI64(v))
      [] k = "logIndex" -> VisitField(acc, "log_index", DeserializeI64(v))
      [] k = "logID" -> VisitField(acc, "log_id", DeserializeString(v))
      [] OTHER -> acc

RECURSIVE VisitPayloadMap(_, _)
VisitPayloadMap(members, acc) ==
    IF acc.err # None \/ Len(members) = 0 THEN acc
    ELSE VisitPayloadMap(Tail(members),
                         VisitPayloadMember(acc, members[1][1], members[1][2]))

\* The end of the map: a field no member gave is an error.
BuildPayload(acc) ==
    IF acc.err # None THEN Err(acc.err[1])
    ELSE IF acc.body = None \/ acc.integrated_time = None
            \/ acc.log_index = None \/ acc.log_id = None
         THEN Err(DeError("missing field"))
    ELSE Ok(Payload(acc.body[1], acc.integrated_time[1], acc.log_index[1], acc.log_id[1]))

DeserializePayload(v) ==
    IF v.t # "obj" THEN Err(DeError("invalid type"))
    ELSE BuildPayload(VisitPayloadMap(v.m,
             [err |-> None, body |-> None, integrated_time |-> None,
              log_index |-> None, log_id |-> None]))

VisitBundleMember(acc, k, v) ==
    CASE k = "SignedEntryTimestamp" ->
            VisitField(acc, "signed_entry_timestamp", DeserializeString(v))
      [] k = "Payload" -> VisitField(acc, "payload", DeserializePayload(v))
      [] OTHER -> acc

RECURSIVE VisitBundleMap(_, _)
VisitBundleMap(members, acc) ==
    IF acc.err # None \/ Len(members) = 0 THEN acc
    ELSE VisitBundleMap(Tail(members),
                        VisitBundleMember(acc, members[1][1], members[1][2]))

BuildBundle(acc) ==
    IF acc.err # None THEN Err(acc.err[1])
    ELSE IF acc.signed_entry_timestamp = None \/ acc.payload = None
         THEN Err(DeError("missing field"))
    ELSE Ok(Bundle(acc.signed_entry_timestamp[1], acc.payload[1]))

DeserializeBundle(v) ==
    IF v.t # "obj" THEN Err(DeError("invalid type"))
    ELSE BuildBundle(VisitBundleMap(v.m,
             [err |-> None, signed_entry_timestamp |-> None, payload |-> None]))

VisitSignedArtifactBundleMember(acc, k, v) ==
    CASE k = "base64Signature" -> VisitField(acc, "base64_signature", DeserializeString(v))
      [] k = "cert" -> VisitField(acc, "cert", DeserializeString(v))
      [] k = "rekorBundle" -> VisitField(acc, "rekor_bundle", DeserializeBundle(v))
      [] OTHER -> acc

RECURSIVE VisitSignedArtifactBundleMap(_, _)
VisitSignedArtifactBundleMap(members, acc) ==
    IF acc.err # None \/ Len(members) = 0 THEN acc
    ELSE VisitSignedArtifactBundleMap(Tail(members),
            VisitSignedArtifactBundleMember(acc, members[1][1], members[1][2]))

BuildSignedArtifactBundle(acc) ==
    IF acc.err # None THEN Err(acc.err[1])
    ELSE IF acc.base64_signature = None \/ acc.cert = None \/ acc.rekor_bundle = None
         THEN Err(DeError("missing field"))
    ELSE Ok(SignedArtifactBundle(acc.base64_signature[1], acc.cert[1],
                                 acc.rekor_bundle[1]))

DeserializeSignedArtifactBundle(v) ==
    IF v.t # "obj" THEN Err(DeError("invalid type"))
    ELSE BuildSignedArtifactBundle(VisitSignedArtifactBundleMap(v.m,
             [err |-> None, base64_signature |-> None, cert |-> None,
              rekor_bundle |-> None]))

\* serde_json::from_str::<Bundle>(raw): whitespace between the tokens is
\* skipped, a text that is not JSON is an error.
from_str_Bundle(raw) ==
    IF raw.json.t = "syntax_error" THEN Err(DeError("syntax")) ELSE DeserializeBundle(raw.json)

\* serde_json::from_str::<SignedArtifactBundle>(raw)
from_str_SignedArtifactBundle(raw) ==
    IF raw.json.t = "syntax_error" THEN Err(DeError("syntax"))
    ELSE DeserializeSignedArtifactBundle(raw.json)

(***************************************************************************)
(* Bundle::new_verified and SignedArtifactBundle::new_verified.            *)
(***************************************************************************)

\* A mutant of .map(|_| bundle): the bundle whatever the verdict.
MapVerified_Unverified(bundle, verified) ==
    [ret |-> Ok(bundle), events |-> <<Called("from_str")>> \o verified.events]

\* .map(|_| bundle): the decoded value if verification succeeded, else
\* verification's error.
MapVerified(bundle, verified) ==
    [ret |-> IF verified.ret.ok THEN Ok(bundle) ELSE verified.ret,
     events |-> <<Called("from_str")>> \o verified.events]

\* The `?` on the decoded text, then lines 61.
VerifyParsedBundle(parsed, rekor_pub_key) ==
    IF ~parsed.ok THEN [ret |-> Err(ParseError), events |-> <<Called("from_str")>>]
    ELSE MapVerified(parsed.v, verify_bundle(parsed.v, rekor_pub_key))

Bundle_new_verified(raw, rekor_pub_key) ==
    VerifyParsedBundle(from_str_Bundle(raw), rekor_pub_key)

\* A mutant: the artifact signature must be base64 too.
RequireBase64(sig, r) == IF r.ret.ok /\ ~sig.ok THEN [r EXCEPT !.ret = sig] ELSE r

VerifyParsedSignedArtifactBundle_ChecksSignature(parsed, rekor_pub_key) ==
    IF ~parsed.ok THEN [ret |-> Err(ParseError), events |-> <<Called("from_str")>>]
    ELSE RequireBase64(Base64Decode(parsed.v.base64_signature),
             MapVerified(parsed.v, verify_bundle(parsed.v.rekor_bundle, rekor_pub_key)))

\* The `?` on the decoded text, then line 41.
VerifyParsedSignedArtifactBundle(parsed, rekor_pub_key) ==
    IF ~parsed.ok THEN [ret |-> Err(ParseError), events |-> <<Called("from_str")>>]
    ELSE MapVerified(parsed.v, verify_bundle(parsed.v.rekor_bundle, rekor_pub_key))

SignedArtifactBundle_new_verified(raw, rekor_pub_key) ==
    VerifyParsedSignedArtifactBundle(from_str_SignedArtifactBundle(raw), rekor_pub_key)

(***************************************************************************)
(* The raw documents in play.                                              *)
(***************************************************************************)
Reverse(s) == [i \in 1..Len(s) |-> s[Len(s) + 1 - i]]

Without(s, i) == SubSeq(s, 1, i - 1) \o SubSeq(s, i + 1, Len(s))

PayloadMembers(p) ==
    << <<"body", JStr(p.body)>>, <<"integratedTime", JInt(p.integrated_time)>>,
       <<"logIndex", JInt(p.log_index)>>, <<"logID", JStr(p.log_id)>> >>

BundleMembers(b, payloadMembers) ==
    << <<"SignedEntryTimestamp", JStr(b.signed_entry_timestamp)>>,
       <<"Payload", JObj(payloadMembers)>> >>

\* The document of a bundle, with either object's members possibly in the
\* opposite order.
BundleJson(b, swapOuter, swapInner) ==
    LET pm == IF swapInner THEN Reverse(PayloadMembers(b.payload))
              ELSE PayloadMembers(b.payload)
        bm == BundleMembers(b, pm)
    IN  JObj(IF swapOuter THEN Reverse(bm) ELSE bm)

\* Bundles whose timestamp is the signature of their payload under some key.
SignedBundles ==
    { Bundle(Base64Encode(Sign(k, SerializePayload(p).v)), p) : k \in Keys, p \in Payloads }

\* Bundles whose timestamp is no signature at all.
UnsignedBundles == { Bundle(s, p) : s \in { <<"!">>, <<>> }, p \in Payloads }

\* Bundles whose timestamp is the signature of a payload that differs from
\* theirs in one field.
TamperedBundles ==
    UNION { { Bundle(b.signed_entry_timestamp, p) :
                p \in { q \in Payloads :
                          Cardinality({ f \in DOMAIN q : q[f] # b.payload[f] }) = 1 } } :
            b \in SignedBundles }

TextBundles == SignedBundles \cup UnsignedBundles \cup TamperedBundles

WellFormedBundleTexts ==
    { Text(ws, BundleJson(b, so, si)) :
        ws \in 0..MaxWs, b \in TextBundles, so \in BOOLEAN, si \in BOOLEAN }
    \cup { Text(0, JObj(Append(BundleMembers(b, PayloadMembers(b.payload)),
                               <<"unknown", JNull>>))) : b \in SignedBundles }

\* Documents lacking the `Payload` or the `SignedEntryTimestamp` member.
LackingFieldBundleTexts ==
    { Text(ws, JObj(Without(BundleMembers(b, PayloadMembers(b.payload)), i))) :
        ws \in 0..MaxWs, b \in SignedBundles, i \in 1..2 }

MalformedBundleTexts ==
    LackingFieldBundleTexts
    \cup { Text(0, JObj(BundleMembers(b, Without(PayloadMembers(b.payload), i)))) :
             b \in SignedBundles, i \in 1..4 }
    \cup { Text(0, JObj(BundleMembers(b, PayloadMembers(b.payload))
                        \o << <<"SignedEntryTimestamp", JStr(b.signed_entry_timestamp)>> >>)) :
             b \in SignedBundles }
    \cup { Text(0, JObj(<< <<"SignedEntryTimestamp", JInt(0)>>,
                           <<"Payload", JObj(PayloadMembers(b.payload))>> >>)) :
             b \in SignedBundles }
    \cup { Text(0, JObj(<< <<"SignedEntryTimestamp", JStr(b.signed_entry_timestamp)>>,
                           <<"Payload", JNull>> >>)) : b \in SignedBundles }
    \cup { Text(0, JNull), Text(0, JSyntaxError) }

BundleTexts == WellFormedBundleTexts \cup MalformedBundleTexts

Base64Signatures == { <<"A">>, <<"!">> }
Certs == { <<"c">>, <<>> }

SignedArtifactBundleMembers(sig, cert, rekorBundle) ==
    << <<"base64Signature", JStr(sig)>>, <<"cert", JStr(cert)>>,
       <<"rekorBundle", rekorBundle>> >>

EmbeddedBundles == SignedBundles \cup UnsignedBundles

WellFormedSignedArtifactBundleTexts ==
    { Text(ws, JObj(IF so THEN Reverse(SignedArtifactBundleMembers(sig, cert,
                                           BundleJson(b, FALSE, FALSE)))
                    ELSE SignedArtifactBundleMembers(sig, cert,
                                           BundleJson(b, FALSE, FALSE)))) :
        ws \in 0..MaxWs, sig \in Base64Signatures, cert \in Certs,
        b \in EmbeddedBundles, so \in BOOLEAN }

MalformedSignedArtifactBundleTexts ==
    { Text(0, JObj(Without(SignedArtifactBundleMembers(<<"A">>, <<"c">>,
                                BundleJson(b, FALSE, FALSE)), i))) :
        b \in SignedBundles, i \in 1..3 }
    \cup { Text(0, JObj(SignedArtifactBundleMembers(<<"A">>, <<"c">>,
                JObj(Without(BundleMembers(b, PayloadMembers(b.payload)), i))))) :
             b \in SignedBundles, i \in 1..2 }
    \cup { Text(0, JSyntaxError) }

SignedArtifactBundleTexts ==
    WellFormedSignedArtifactBundleTexts \cup MalformedSignedArtifactBundleTexts

(***************************************************************************)
(* One call at a time: a caller invokes an operation, which runs to its    *)
(* return, and takes the result.                                           *)
(***************************************************************************)
NoCall == [op |-> "none"]
NoRet == [none |-> TRUE]

InitCall ==
    /\ pc = "idle"
    /\ call = NoCall
    /\ ret = NoRet
    /\ events = <<>>

NoMemo == [k \in Keys |-> None]

InitCaller ==
    /\ held = None
    /\ copy = None
    /\ passed = {}
    /\ memo = NoMemo

Init == InitCall /\ InitCaller

CallBundleNewVerified ==
    /\ pc = "idle"
    /\ \E raw \in BundleTexts, key \in Keys :
          LET r == Bundle_new_verified(raw, key)
          IN  /\ call' = [op |-> "Bundle::new_verified", raw |-> raw, key |-> key]
              /\ ret' = r.ret
              /\ events' = r.events
    /\ pc' = "returned"
    /\ UNCHANGED <<held, copy, passed, memo>>

CallSignedArtifactBundleNewVerified ==
    /\ pc = "idle"
    /\ \E raw \in SignedArtifactBundleTexts, key \in Keys :
          LET r == SignedArtifactBundle_new_verified(raw, key)
          IN  /\ call' = [op |-> "SignedArtifactBundle::new_verified",
                          raw |-> raw, key |-> key]
              /\ ret' = r.ret
              /\ events' = r.events
    /\ pc' = "returned"
    /\ UNCHANGED <<held, copy, passed, memo>>

CallVerifyBundle ==
    /\ pc = "idle"
    /\ \E bundle \in Bundles, key \in Keys :
          LET r == verify_bundle(bundle, key)
          IN  /\ call' = [op |-> "Bundle::verify_bundle", bundle |-> bundle, key |-> key]
              /\ ret' = r.ret
              /\ events' = r.events
    /\ pc' = "returned"
    /\ UNCHANGED <<held, copy, passed, memo>>

Return ==
    /\ pc = "returned"
    /\ pc' = "idle"
    /\ call' = NoCall
    /\ ret' = NoRet
    /\ events' = <<>>
    /\ UNCHANGED <<held, copy, passed, memo>>

Next ==
    \/ CallBundleNewVerified
    \/ CallSignedArtifactBundleNewVerified
    \/ CallVerifyBundle
    \/ Return

Spec == Init /\ [][Next]_vars

(***************************************************************************)
(* A caller inside the crate holding bundles.  Bundle and Payload are pub  *)
(* structs with pub fields that derive Deserialize and Clone, so a caller  *)
(* can decode one, build one from field values, change a field and copy    *)
(* one, besides calling Bundle::new_verified and Bundle::verify_bundle.    *)
(*   held   the bundle the caller holds, if any                            *)
(*   copy   a clone of it, if any                                          *)
(*   passed the keys under which the held value has passed verification    *)
(*   memo   per key, the latest verdict of verify_bundle on the held       *)
(*          value, and whether that call repeated an earlier one           *)
(***************************************************************************)
CallerPayloads ==
    { p \in Payloads : /\ p.body # <<"e", "U+0301">>
                       /\ p.integrated_time = MaxTime
                       /\ p.log_index = 0
                       /\ p.log_id = <<"c">> }

CallerTimestamps ==
    { Base64Encode(Sign(k, SerializePayload(p).v)) : k \in Keys, p \in CallerPayloads }
        \cup { <<"!">> }

CallerBundles == { Bundle(s, p) : s \in CallerTimestamps, p \in CallerPayloads }

CallerTexts ==
    { Text(0, BundleJson(b, FALSE, FALSE)) : b \in CallerBundles }
        \cup { Text(0, JSyntaxError) }

\* What is known of a value the caller has just put in `held`.
Replaced(newHeld, keys) ==
    /\ held' = newHeld
    /\ passed' = IF newHeld = held THEN passed \cup keys ELSE keys
    /\ memo' = IF newHeld = held THEN memo ELSE NoMemo

\* serde_json::from_str::<Bundle>(raw)
CallerDecode ==
    /\ \E raw \in CallerTexts :
          /\ from_str_Bundle(raw).ok
          /\ Replaced(Some(from_str_Bundle(raw).v), {})
    /\ UNCHANGED <<pc, call, ret, events, copy>>

\* Bundle { signed_entry_timestamp, payload }
CallerConstruct ==
    /\ \E b \in CallerBundles : Replaced(Some(b), {})
    /\ UNCHANGED <<pc, call, ret, events, copy>>

\* held.signed_entry_timestamp = s, or held.payload.body = body
CallerSetField ==
    /\ held # None
    /\ \/ \E s \in CallerTimestamps :
             Replaced(Some([held[1] EXCEPT !.signed_entry_timestamp = s]), {})
       \/ \E p \in CallerPayloads :
             Replaced(Some([held[1] EXCEPT !.payload.body = p.body]), {})
    /\ UNCHANGED <<pc, call, ret, events, copy>>

\* held.clone()
CallerClone ==
    /\ held # None
    /\ copy' = held
    /\ UNCHANGED <<pc, call, ret, events, held, passed, memo>>

\* Bundle::new_verified(raw, key), the bundle kept on success.
CallerNewVerified ==
    /\ \E raw \in CallerTexts, key \in Keys :
          /\ Bundle_new_verified(raw, key).ret.ok
          /\ Replaced(Some(Bundle_new_verified(raw, key).ret.v), {key})
    /\ UNCHANGED <<pc, call, ret, events, copy>>

\* Bundle::verify_bundle(&held, key): the arguments are shared borrows.
CallerVerifyHeld ==
    /\ held # None
    /\ \E key \in Keys :
          /\ memo' = [memo EXCEPT ![key] =
                         Some([ret |-> verify_bundle(held[1], key).ret,
                               again |-> memo[key] # None])]
          /\ passed' = IF verify_bundle(held[1], key).ret.ok THEN passed \cup {key}
                       ELSE passed
    /\ UNCHANGED <<pc, call, ret, events, held, copy>>

\* Bundle::verify_bundle(&copy, key)
CallerVerifyCopy ==
    /\ copy # None
    /\ \E key \in Keys : ret' = verify_bundle(copy[1], key).ret
    /\ UNCHANGED <<pc, call, events, held, copy, passed, memo>>

NextCaller ==
    \/ CallerDecode
    \/ CallerConstruct
    \/ CallerSetField
    \/ CallerClone
    \/ CallerNewVerified
    \/ CallerVerifyHeld
    \/ CallerVerifyCopy

SpecCaller == Init /\ [][NextCaller]_vars

(***************************************************************************)
(* Properties of a single call.                                            *)
(***************************************************************************)
Returned(op) == pc = "returned" /\ call.op = op

\* The value of the member named k of a JSON object.
Lookup(members, k) == members[CHOOSE i \in 1..Len(members) : members[i][1] = k][2]

\* The bundle's timestamp is the signature of its payload under key k.
ValidUnder(bundle, k) ==
    /\ Base64Decode(bundle.signed_entry_timestamp).ok
    /\ Base64Decode(bundle.signed_entry_timestamp).v
          = Sign(k, SerializePayload(bundle.payload).v)

\* The primitive's verdict on the bundle's timestamp, the canonical bytes of
\* its payload and the key.
PrimitiveAccepts(bundle, k) ==
    verify_signature(k, Base64Encoded(bundle.signed_entry_timestamp),
                     SerializePayload(bundle.payload).v).ok

\* C1: Bundle::new_verified returns a bundle only if the text decodes and
\* the decoded bundle verifies under the key; the bundle returned has the
\* field values of the raw text; otherwise an error and no bundle.
C1_NewVerifiedReturnsOnlyVerified ==
    Returned("Bundle::new_verified") =>
        /\ ret.ok <=> (/\ from_str_Bundle(call.raw).ok
                       /\ PrimitiveAccepts(from_str_Bundle(call.raw).v, call.key))
        /\ ret.ok =>
              LET top == call.raw.json.m
                  pm == Lookup(top, "Payload").m
              IN  /\ ret.v.signed_entry_timestamp = Lookup(top, "SignedEntryTimestamp").s
                  /\ ret.v.payload.body = Lookup(pm, "body").s
                  /\ ret.v.payload.integrated_time = Lookup(pm, "integratedTime").n
                  /\ ret.v.payload.log_index = Lookup(pm, "logIndex").n
                  /\ ret.v.payload.log_id = Lookup(pm, "logID").s
        /\ ~ret.ok => DOMAIN ret = {"ok", "e"}

C1_Witness ==
    /\ Returned("Bundle::new_verified")
    /\ ret.ok
    /\ call.raw.ws > 0
    /\ call.raw.json.m[1][1] = "Payload"

\* C2: verify_bundle succeeds exactly when the primitive accepts, and the
\* primitive is called with the timestamp as base64 signature, the canonical
\* bytes of the payload alone as message, and the key supplied.
C2_VerifyIffPrimitiveAccepts ==
    Returned("Bundle::verify_bundle") =>
        /\ events = <<Called("serialize"),
                      CalledVerifySignature(call.key,
                          Base64Encoded(call.bundle.signed_entry_timestamp),
                          SerializePayload(call.bundle.payload).v)>>
        /\ ret.ok <=> PrimitiveAccepts(call.bundle, call.key)
        /\ ret.ok => ret = Ok(Unit)

C2_Witness ==
    /\ Returned("Bundle::verify_bundle")
    /\ ret.ok
    /\ call.key = "rekor"

\* C4: a bundle valid under key K, verified against another key, fails with
\* a SignatureMismatch, neither a decode error nor an internal error.
C4_WrongKeyIsSignatureMismatch ==
    /\ Returned("Bundle::verify_bundle")
         /\ (\E k \in Keys : k # call.key /\ ValidUnder(call.bundle, k))
       => /\ ~ret.ok
          /\ ret.e.variant = "SignatureMismatch"
          /\ ret.e.variant \notin {ParseError.variant, CanonicalizationError.variant}
    /\ Returned("Bundle::new_verified")
         /\ from_str_Bundle(call.raw).ok
         /\ (\E k \in Keys : k # call.key /\ ValidUnder(from_str_Bundle(call.raw).v, k))
       => /\ ~ret.ok
          /\ ret.e.variant = "SignatureMismatch"
          /\ ret.e.variant \notin {ParseError.variant, CanonicalizationError.variant}

C4_Witness ==
    /\ Returned("Bundle::new_verified")
    /\ from_str_Bundle(call.raw).ok
    /\ call.key = "other"
    /\ ValidUnder(from_str_Bundle(call.raw).v, "rekor")
    /\ ~ret.ok

\* C5: a document lacking `Payload` or `SignedEntryTimestamp` yields an
\* error of a kind of its own, neither that of a signature mismatch nor
\* that of an internal error, and never a success.
C5_LackingFieldIsDecodeErrorKind ==
    Returned("Bundle::new_verified") /\ call.raw \in LackingFieldBundleTexts =>
        /\ ~ret.ok
        /\ ret.e.variant \notin {"SignatureMismatch", CanonicalizationError.variant}

\* The document with other values for base64Signature and cert.
WithSignatureAndCert(raw, sig, cert) ==
    Text(raw.ws,
         JObj([i \in 1..Len(raw.json.m) |->
                 CASE raw.json.m[i][1] = "base64Signature" -> <<"base64Signature", JStr(sig)>>
                   [] raw.json.m[i][1] = "cert" -> <<"cert", JStr(cert)>>
                   [] OTHER -> raw.json.m[i]]))

\* C6: SignedArtifactBundle::new_verified on a well-formed document
\* succeeds exactly when the embedded rekorBundle verifies, whatever
\* base64Signature and cert are, and returns the document's values.
C6_ArtifactOutcomeIsRekorBundleOutcome ==
    Returned("SignedArtifactBundle::new_verified")
      /\ from_str_SignedArtifactBundle(call.raw).ok =>
        LET top == call.raw.json.m
        IN  /\ ret.ok <=> ValidUnder(from_str_Bundle(Text(0, Lookup(top, "rekorBundle"))).v,
                                     call.key)
            /\ \A sig \in Base64Signatures, cert \in Certs :
                  SignedArtifactBundle_new_verified(
                      WithSignatureAndCert(call.raw, sig, cert), call.key).ret.ok = ret.ok
            /\ ret.ok =>
                  /\ ret.v.base64_signature = Lookup(top, "base64Signature").s
                  /\ ret.v.cert = Lookup(top, "cert").s
                  /\ ret.v.rekor_bundle
                        = from_str_Bundle(Text(0, Lookup(top, "rekorBundle"))).v

C6_Witness ==
    /\ Returned("SignedArtifactBundle::new_verified")
    /\ ret.ok
    /\ ret.v.base64_signature = <<"!">>
    /\ ret.v.cert = <<>>

\* The two payloads differ in exactly one field.
DifferInOneField(p, q) ==
    Cardinality({ f \in DOMAIN p : p[f] # q[f] }) = 1

\* C7: when a bundle verifies under a key, the bundle with one payload
\* field changed, and the same timestamp, does not verify under that key.
C7_TamperedPayloadFails ==
    Returned("Bundle::verify_bundle") /\ ret.ok =>
        \A p \in Payloads :
            DifferInOneField(p, call.bundle.payload) =>
                ~verify_bundle(Bundle(call.bundle.signed_entry_timestamp, p), call.key).ret.ok

\* The canonical text of a payload as the claim words it: the wire names in
\* sorted order, no whitespace.
ExpectedCanonical(p) ==
    <<"{">> \o WriteStr(WireBody) \o <<":">> \o WriteStr(p.body) \o <<",">>
        \o WriteStr(WireIntegratedTime) \o <<":">> \o WriteI64(p.integrated_time) \o <<",">>
        \o WriteStr(WireLogID) \o <<":">> \o WriteStr(p.log_id) \o <<",">>
        \o WriteStr(WireLogIndex) \o <<":">> \o WriteI64(p.log_index) \o <<"}">>

\* The members of a bundle document in another order.
RearrangeMembers(m, swapOuter, swapInner) ==
    LET inner == [i \in 1..Len(m) |->
                    IF swapInner /\ m[i][1] = "Payload" /\ m[i][2].t = "obj"
                    THEN <<"Payload", JObj(Reverse(m[i][2].m))>>
                    ELSE m[i]]
    IN  IF swapOuter THEN Reverse(inner) ELSE inner

\* C8: the message handed to the primitive is the payload's fields under
\* their wire names in sorted order without whitespace, whatever the order
\* and whitespace of the raw text; a document with its members in another
\* order or with other whitespace gets the same outcome under the same key.
C8_CanonicalIsOrderIndependent ==
    /\ Returned("Bundle::verify_bundle") =>
          events[2].msg = ExpectedCanonical(call.bundle.payload)
    /\ Returned("Bundle::new_verified") /\ call.raw.json.t = "obj" =>
          /\ Len(events) = 3 =>
                events[3].msg = ExpectedCanonical(from_str_Bundle(call.raw).v.payload)
          /\ \A ws \in 0..MaxWs, so \in BOOLEAN, si \in BOOLEAN :
                Bundle_new_verified(
                    Text(ws, JObj(RearrangeMembers(call.raw.json.m, so, si))),
                    call.key).ret = ret

C8_Witness ==
    /\ Returned("Bundle::new_verified")
    /\ ret.ok
    /\ call.raw.ws > 0
    /\ call.raw.json.m[1][1] = "Payload"
    /\ Lookup(call.raw.json.m, "Payload").m[1][1] = "logID"

IsPrefix(a, b) == Len(a) <= Len(b) /\ a = SubSeq(b, 1, Len(a))

EventNames == [i \in 1..Len(events) |-> events[i].fn]

\* C9: decode, canonicalize, verify in that order, each at most once; a
\* failed decode returns its error without the later steps; a failed
\* serialization returns without the primitive; the primitive's error is
\* the error returned; success needs every step to succeed.
C9_StepsInOrderNoRetry ==
    Returned("Bundle::new_verified") \/ Returned("SignedArtifactBundle::new_verified") =>
        LET parsed == IF call.op = "Bundle::new_verified" THEN from_str_Bundle(call.raw)
                      ELSE from_str_SignedArtifactBundle(call.raw)
        IN  /\ Len(events) >= 1
            /\ IsPrefix(EventNames, <<"from_str", "serialize", "verify_signature">>)
            /\ ~parsed.ok => events = <<Called("from_str")>> /\ ret = Err(ParseError)
            /\ parsed.ok => Len(events) >= 2
            /\ Len(events) = 2 => ret = Err(CanonicalizationError)
            /\ Len(events) = 3 =>
                  LET verdict == verify_signature(events[3].key, events[3].signature,
                                                  events[3].msg)
                  IN  /\ ret.ok = verdict.ok
                      /\ ~verdict.ok => ret = verdict
            /\ ret.ok => Len(events) = 3

C9_Witness ==
    /\ Returned("SignedArtifactBundle::new_verified")
    /\ Len(events) = 3
    /\ ~ret.ok
    /\ ret.e.variant = "Base64Error"

C9_WitnessDecodeFailed ==
    /\ Returned("Bundle::new_verified")
    /\ events = <<Called("from_str")>>
    /\ ~ret.ok

(***************************************************************************)
(* Properties of the bundles a caller holds.                               *)
(***************************************************************************)

\* C3: every bundle a caller holds has passed verification with the field
\* values it has now.
C3_HeldBundleIsVerified == held # None => passed # {}

====
